---- MODULE Spec2Model ----
(***************************************************************************)
(* Model of diode (src/src/main.rs): Diode::run streams one input file,    *)
(* block by block, through a bounded broadcast Bus to one Writer thread    *)
(* per output path, then joins the Reader and the Writers.                 *)
(*                                                                         *)
(* A thread's step runs from one call on the Bus (or the thread's start)   *)
(* to the next: the file calls in between touch only that thread's own     *)
(* file. Every call that returns a Result may fail. Read::read may return  *)
(* fewer bytes than the buffer holds; the buffer keeps its zero fill       *)
(* beyond the bytes read. What a failed write_all left in its file is not  *)
(* tracked.                                                                *)
(***************************************************************************)
EXTENDS Integers, Sequences, FiniteSets, TLC

\* ------------------------------------------------------------- bounds
MaxLen == 3         \* longest input, in bytes
MaxBlock == 2       \* largest block_size (-b)
MaxBuffer == 2      \* largest block_buffer (-m)
MaxOutputs == 2     \* most output paths (-o)
MaxCount == 2       \* largest block_count (-c)

\* block_count: Option<usize>; None is modelled as -1
NoCount == -1

Writers == 1..MaxOutputs

VARIABLES
    \* the Diode struct (the job's configuration)
    input,          \* contents of the input file: byte i has value i
    block_size,
    block_buffer,
    block_count,
    num_outputs,    \* self.output.len()
    \* the main thread inside run
    mpc,            \* "register", "join_reader", "join_writers", "returned"
    writer_threads, \* number of Writer threads spawned so far (the Vec's length)
    join_idx,       \* the handle the join loop is at
    st,             \* the Status built after the Reader's join
    result,         \* what run returned
    \* the Bus (a ring of block_buffer + 1 seats) and its receivers
    ring, tail, closed, head, live,
    \* the Reader thread
    rpc,            \* "unspawned", "open", "stream_len", "loop", "for", "broadcast", "done"
    pos,            \* the input file's cursor
    full_len, curr_pos, read, tmp_buf, iter, reader_result,
    \* the Writer threads
    wpc,            \* "unspawned", "create", "recv", "done"
    file,           \* contents of each output file
    synced, writer_result,
    \* history
    sent,           \* every block broadcast, in order
    got,            \* per receiver, every block recv() returned, in order
    short,          \* some read returned fewer bytes than its buffer holds
    reads           \* per read that returned Ok(n): <<the buffer's length, n>>

cfgvars == <<input, block_size, block_buffer, block_count, num_outputs>>
mainvars == <<mpc, writer_threads, join_idx, st, result>>
busvars == <<ring, tail, closed, head, live>>
readervars == <<rpc, pos, full_len, curr_pos, read, tmp_buf, iter, reader_result>>
writervars == <<wpc, file, synced, writer_result>>
histvars == <<sent, got, short, reads>>
vars == <<cfgvars, mainvars, busvars, readervars, writervars, histvars>>

\* ------------------------------------------------------------- values
Min(a, b) == IF a < b THEN a ELSE b

\* vec![0; n]
Zeros(n) == [i \in 1..n |-> 0]

\* the input file of length n: byte i is i (never 0, the buffers' fill)
InputOf(n) == [i \in 1..n |-> i]

RECURSIVE Concat(_)
Concat(blocks) ==
    IF blocks = <<>> THEN <<>> ELSE Head(blocks) \o Concat(Tail(blocks))

IsPrefix(s, t) == Len(s) <= Len(t) /\ SubSeq(t, 1, Len(s)) = s

\* Result<usize, Error> of a thread, and Result<Status, Error> of run
Pending == [tag |-> "none", val |-> 0, files |-> 0, kind |-> "", path |-> 0]
Ok(n) == [tag |-> "ok", val |-> n, files |-> 0, kind |-> "", path |-> 0]
Err(k, p) == [tag |-> "err", val |-> 0, files |-> 0, kind |-> k, path |-> p]
Status(n, f) == [tag |-> "ok", val |-> n, files |-> f, kind |-> "", path |-> 0]

\* the PathBuf in an Error: the input's is 0, output w's is w, and the kinds
\* that carry no path have NoPath
InputPath == 0
NoPath == -1

\* ------------------------------------------------------------- the Bus
\* a ring with one seat too many
RingLenOneMore == block_buffer + 2

\* Bus::new(self.block_buffer): block_buffer seats and one padding seat
RingLen == block_buffer + 1

\* a broadcast that never waits
CanBroadcastAlways == TRUE

\* broadcast() returns only once the seat after tail has been read by every
\* receiver that has not left
CanBroadcast ==
    \A w \in Writers : live[w] => head[w] # (tail + 1) % RingLen

\* a recv() that looks at the closed flag before the ring
HasBlockUnlessClosed(w) == head[w] # tail /\ ~closed

\* recv(): a block is ready
HasBlock(w) == head[w] # tail

\* a try_recv(): Err whenever no block is ready
DisconnectedOrEmpty == TRUE

\* recv(): with no block ready, Err once the Bus has been dropped
Disconnected == closed

\* ------------------------------------------------------------- Init
Init ==
    /\ \E n \in 0..MaxLen : input = InputOf(n)
    /\ block_size \in 1..MaxBlock
    /\ block_buffer \in 1..MaxBuffer
    /\ block_count \in {NoCount} \cup (0..MaxCount)
    /\ num_outputs \in 0..MaxOutputs
    /\ mpc = "register"
    /\ writer_threads = 0
    /\ join_idx = 1
    /\ st = Status(0, 0)
    /\ result = Pending
    /\ ring = [i \in 0..(RingLen - 1) |-> <<>>]
    /\ tail = 0
    /\ closed = FALSE
    /\ head = [w \in Writers |-> 0]
    /\ live = [w \in Writers |-> FALSE]
    /\ rpc = "unspawned"
    /\ pos = 0
    /\ full_len = 0
    /\ curr_pos = 0
    /\ read = 0
    /\ tmp_buf = <<>>
    /\ iter = 0
    /\ reader_result = Pending
    /\ wpc = [w \in Writers |-> "unspawned"]
    /\ file = [w \in Writers |-> <<>>]
    /\ synced = [w \in Writers |-> FALSE]
    /\ writer_result = [w \in Writers |-> Pending]
    /\ sent = <<>>
    /\ got = [w \in Writers |-> <<>>]
    /\ short = FALSE
    /\ reads = <<>>

\* ------------------------------------------------------------- main thread
\* a Reader spawned inside the map over outputs
ReaderSpawnableEarly == TRUE

\* the Reader may be spawned once the map over outputs has been collected
ReaderSpawnable == writer_threads = num_outputs

\* one iteration of the map over outputs: add_rx, then spawn the Writer
Register ==
    /\ mpc = "register"
    /\ writer_threads < num_outputs
    /\ LET w == writer_threads + 1 IN
        /\ writer_threads' = w
        /\ head' = [head EXCEPT ![w] = tail]
        /\ live' = [live EXCEPT ![w] = TRUE]
        /\ wpc' = [wpc EXCEPT ![w] = "create"]
    /\ UNCHANGED <<cfgvars, mpc, join_idx, st, result, ring, tail, closed,
                   readervars, file, synced, writer_result, histvars>>

SpawnReader ==
    /\ mpc = "register"
    /\ ReaderSpawnable
    /\ mpc' = "join_reader"
    /\ rpc' = "open"
    /\ UNCHANGED <<cfgvars, writer_threads, join_idx, st, result, busvars,
                   pos, full_len, curr_pos, read, tmp_buf, iter, reader_result,
                   writervars, histvars>>

\* a thread has ended, so join() on its handle returns
ReaderEnded == rpc = "done"

\* a Writer handle that is dropped instead of joined
WriterEndedAlways(w) == TRUE

WriterEnded(w) == wpc[w] = "done"

\* join().map_err(..)? with a single ?, which drops the thread's own Result
FailedNever(r) == FALSE

\* the second ? of join().map_err(..)??: the thread's own Err leaves run
Failed(r) == r.tag = "err"

\* reader_thread.join()??, then the Status
JoinReader ==
    /\ mpc = "join_reader"
    /\ ReaderEnded
    /\ IF Failed(reader_result)
         THEN /\ result' = reader_result
              /\ mpc' = "returned"
              /\ st' = st
         ELSE /\ st' = Status(reader_result.val, writer_threads)
              /\ mpc' = "join_writers"
              /\ result' = result
    /\ UNCHANGED <<cfgvars, writer_threads, join_idx, busvars, readervars,
                   writervars, histvars>>

\* the handles joined last to first
HandleAtReversed(i) == writer_threads + 1 - i

\* the Writer whose handle is the i-th of writer_threads: collect() keeps the
\* order of outputs
HandleAt(i) == i

\* one iteration of the loop over writer_threads: handle.join()??
JoinWriter ==
    /\ mpc = "join_writers"
    /\ join_idx <= writer_threads
    /\ WriterEnded(HandleAt(join_idx))
    /\ IF Failed(writer_result[HandleAt(join_idx)])
         THEN /\ result' = writer_result[HandleAt(join_idx)]
              /\ mpc' = "returned"
              /\ join_idx' = join_idx
         ELSE /\ join_idx' = join_idx + 1
              /\ UNCHANGED <<result, mpc>>
    /\ UNCHANGED <<cfgvars, writer_threads, st, busvars, readervars,
                   writervars, histvars>>

\* Ok(st)
Return ==
    /\ mpc = "join_writers"
    /\ join_idx > writer_threads
    /\ result' = st
    /\ mpc' = "returned"
    /\ UNCHANGED <<cfgvars, writer_threads, join_idx, st, busvars, readervars,
                   writervars, histvars>>

\* ------------------------------------------------------------- Reader thread
\* a Bus that is dropped while the thread that owned it is still running
BusDroppedBeforeReturn(r) ==
    /\ reader_result' = r
    /\ rpc' = rpc
    /\ closed' = TRUE

\* an error that is stored without the ? that would end the closure
ReaderReturnsAndGoesOn(r) ==
    /\ reader_result' = r
    /\ rpc' = rpc
    /\ closed' = closed

\* a Reader that ends with the Bus still alive (owned by run, not moved)
ReaderReturnsKeepingBus(r) ==
    /\ reader_result' = r
    /\ rpc' = "done"
    /\ closed' = closed

\* the closure returns: its result is stored and message_bus, which it owns,
\* is dropped, which closes the Bus
ReaderReturns(r) ==
    /\ reader_result' = r
    /\ rpc' = "done"
    /\ closed' = TRUE

\* File::open(&self.input), then the match on block_count
Open ==
    /\ rpc = "open"
    /\ \/ /\ rpc' = IF block_count # NoCount THEN "for" ELSE "stream_len"
          /\ UNCHANGED <<reader_result, closed>>
       \/ ReaderReturns(Err("UnableToOpenFile", InputPath))
    /\ UNCHANGED <<cfgvars, mainvars, ring, tail, head, live, pos, full_len,
                   curr_pos, read, tmp_buf, iter, writervars, histvars>>

\* what file.read(&mut buf) can return for a buffer of m bytes: 0 at the end
\* of the file (or for an empty buffer), else any count from 1 up to what the
\* buffer and the file hold
ReadCounts(m) ==
    IF Min(m, Len(input) - pos) <= 0 THEN {0} ELSE 1..Min(m, Len(input) - pos)

\* a buffer cut down to the bytes the read returned
FilledTruncated(m, n) == SubSeq(input, pos + 1, pos + n)

\* the buffer after a read of n bytes into vec![0; m]
Filled(m, n) == SubSeq(input, pos + 1, pos + n) \o Zeros(m - n)

\* a total that counts the buffer's length instead of the bytes read
CountedBuffer(m, n) == m

\* what the Reader adds to its total after a read of n bytes into m
Counted(m, n) == n

\* a loop that runs once more: 0..=count
InRangeInclusive(i) == i <= block_count

\* for _ in 0..count
InRange(i) == i < block_count

\* bounded mode: one pass of for _ in 0..count up to the read, or the end of
\* the loop and Ok(read)
ReadBounded ==
    /\ rpc = "for"
    /\ IF InRange(iter)
         THEN \/ \E n \in ReadCounts(block_size) :
                    /\ tmp_buf' = Filled(block_size, n)
                    /\ read' = read + Counted(block_size, n)
                    /\ pos' = pos + n
                    /\ short' = (short \/ n < block_size)
                    /\ reads' = Append(reads, <<block_size, n>>)
                    /\ rpc' = "broadcast"
                    /\ UNCHANGED <<reader_result, closed>>
              \/ /\ ReaderReturns(Err("UnableToReadBytesFrom", InputPath))
                 /\ UNCHANGED <<tmp_buf, read, pos, short, reads>>
         ELSE /\ ReaderReturns(Ok(read))
              /\ UNCHANGED <<tmp_buf, read, pos, short, reads>>
    /\ UNCHANGED <<cfgvars, mainvars, ring, tail, head, live, full_len,
                   curr_pos, iter, writervars, sent, got>>

\* file.stream_len()
StreamLen ==
    /\ rpc = "stream_len"
    /\ \/ /\ full_len' = Len(input)
          /\ rpc' = "loop"
          /\ UNCHANGED <<reader_result, closed>>
       \/ /\ ReaderReturns(Err("UnableToGetByteLen", InputPath))
          /\ UNCHANGED full_len
    /\ UNCHANGED <<cfgvars, mainvars, ring, tail, head, live, pos, curr_pos,
                   read, tmp_buf, iter, writervars, histvars>>

\* a loop test that stops one byte early
MoreToReadOffByOne(p) == p + 1 < full_len

\* if curr_pos < full_len
MoreToRead(p) == p < full_len

\* the size of tmp_buf in full-stream mode
BufLen(diff) == IF diff < block_size THEN diff ELSE block_size

\* full-stream mode, one pass of the loop up to the broadcast:
\* file.stream_position(), the test, the buffer for what remains and the read
\* into it; past the end the loop breaks and the closure returns Ok(read)
ReadFull ==
    /\ rpc = "loop"
    /\ \/ /\ curr_pos' = pos
          /\ IF MoreToRead(pos)
               THEN LET diff == full_len - pos
                        m == BufLen(diff) IN
                    \/ \E n \in ReadCounts(m) :
                          /\ tmp_buf' = Filled(m, n)
                          /\ read' = read + Counted(m, n)
                          /\ pos' = pos + n
                          /\ short' = (short \/ n < m)
                          /\ reads' = Append(reads, <<m, n>>)
                          /\ rpc' = "broadcast"
                          /\ UNCHANGED <<reader_result, closed>>
                    \/ /\ ReaderReturns(Err("UnableToReadBytesFrom", InputPath))
                       /\ UNCHANGED <<tmp_buf, read, pos, short, reads>>
               ELSE /\ ReaderReturns(Ok(read))
                    /\ UNCHANGED <<tmp_buf, read, pos, short, reads>>
       \/ /\ ReaderReturns(Err("UnableToGetCurrPos", InputPath))
          /\ UNCHANGED <<curr_pos, tmp_buf, read, pos, short, reads>>
    /\ UNCHANGED <<cfgvars, mainvars, ring, tail, head, live, full_len,
                   iter, writervars, sent, got>>

\* message_bus.broadcast(tmp_buf): blocks while the ring is full
Broadcast ==
    /\ rpc = "broadcast"
    /\ CanBroadcast
    /\ ring' = [ring EXCEPT ![tail] = tmp_buf]
    /\ tail' = (tail + 1) % RingLen
    /\ sent' = Append(sent, tmp_buf)
    /\ IF block_count # NoCount
         THEN /\ iter' = iter + 1
              /\ rpc' = "for"
         ELSE /\ iter' = iter
              /\ rpc' = "loop"
    /\ UNCHANGED <<cfgvars, mainvars, closed, head, live, pos, full_len,
                   curr_pos, read, tmp_buf, reader_result, writervars, got, short,
                   reads>>

\* ------------------------------------------------------------- Writer threads
\* a Writer that ends without its receiver leaving the Bus
WriterReturnsKeepingReceiver(w, r) ==
    /\ writer_result' = [writer_result EXCEPT ![w] = r]
    /\ wpc' = [wpc EXCEPT ![w] = "done"]
    /\ live' = live

\* the closure returns: its result is stored and recv, which it owns, is
\* dropped, so the receiver leaves the Bus
WriterReturns(w, r) ==
    /\ writer_result' = [writer_result EXCEPT ![w] = r]
    /\ wpc' = [wpc EXCEPT ![w] = "done"]
    /\ live' = [live EXCEPT ![w] = FALSE]

\* a Writer that creates its file only once the first block has arrived
CreateAfterRecv(w) ==
    /\ wpc[w] = "create"
    /\ \/ /\ file' = [file EXCEPT ![w] = <<>>]
          /\ wpc' = [wpc EXCEPT ![w] = "recv"]
          /\ UNCHANGED <<writer_result, live, head, got>>
       \/ /\ HasBlock(w)
          /\ head' = [head EXCEPT ![w] = (head[w] + 1) % RingLen]
          /\ got' = [got EXCEPT ![w] = Append(got[w], ring[head[w]])]
          /\ WriterReturns(w, Err("UnableToCreateFile", w))
          /\ UNCHANGED file
    /\ UNCHANGED <<cfgvars, mainvars, ring, tail, closed, readervars,
                   synced, sent, short, reads>>

\* File::create(&output_path)
Create(w) ==
    /\ wpc[w] = "create"
    /\ \/ /\ file' = [file EXCEPT ![w] = <<>>]
          /\ wpc' = [wpc EXCEPT ![w] = "recv"]
          /\ UNCHANGED <<writer_result, live>>
       \/ /\ WriterReturns(w, Err("UnableToCreateFile", w))
          /\ UNCHANGED file
    /\ UNCHANGED <<cfgvars, mainvars, ring, tail, closed, head, readervars,
                   synced, histvars>>

\* one pass of the loop. recv.recv() blocks until a block is ready or, the
\* ring being empty, the Bus is closed. Ok(bytes): file.write_all(&bytes).
\* Err(_): file.sync_all(), break, Ok(0)
Recv(w) ==
    /\ wpc[w] = "recv"
    /\ IF HasBlock(w)
         THEN LET bytes == ring[head[w]] IN
              /\ head' = [head EXCEPT ![w] = (head[w] + 1) % RingLen]
              /\ got' = [got EXCEPT ![w] = Append(got[w], bytes)]
              /\ \/ /\ file' = [file EXCEPT ![w] = file[w] \o bytes]
                    /\ UNCHANGED <<wpc, writer_result, live>>
                 \/ /\ WriterReturns(w, Err("UnableToWriteToBuffer", NoPath))
                    /\ UNCHANGED file
              /\ UNCHANGED synced
         ELSE /\ Disconnected
              /\ \/ /\ synced' = [synced EXCEPT ![w] = TRUE]
                    /\ WriterReturns(w, Ok(0))
                 \/ /\ WriterReturns(w, Err("UnableToSyncFiles", NoPath))
                    /\ UNCHANGED synced
              /\ UNCHANGED <<head, got, file>>
    /\ UNCHANGED <<cfgvars, mainvars, ring, tail, closed, readervars,
                   sent, short, reads>>

\* ------------------------------------------------------------- specification
Next ==
    \/ Register
    \/ SpawnReader
    \/ JoinReader
    \/ JoinWriter
    \/ Return
    \/ Open
    \/ ReadBounded
    \/ StreamLen
    \/ ReadFull
    \/ Broadcast
    \/ \E w \in Writers : Create(w)
    \/ \E w \in Writers : Recv(w)

Spec == Init /\ [][Next]_vars

\* the steps of each thread; the operating system schedules every thread that
\* can run
MainThread == Register \/ SpawnReader \/ JoinReader \/ JoinWriter \/ Return
ReaderThread == Open \/ ReadBounded \/ StreamLen \/ ReadFull \/ Broadcast
WriterThread(w) == Create(w) \/ Recv(w)

FairSpec ==
    /\ Spec
    /\ WF_vars(MainThread)
    /\ WF_vars(ReaderThread)
    /\ \A w \in Writers : WF_vars(WriterThread(w))

\* ------------------------------------------------------------- properties
Outputs == 1..num_outputs
FullStream == block_count = NoCount
Returned == result.tag # "none"

\* C1 (Fidelity): in full-stream mode, whenever run returns Success, every
\* output file's contents equal the input's contents.
Fidelity ==
    (FullStream /\ result.tag = "ok") => \A w \in Outputs : file[w] = input

\* Fidelity does hold of the runs in which every read filled its buffer.
FidelityOfFullReads ==
    (FullStream /\ result.tag = "ok" /\ ~short) =>
        \A w \in Outputs : file[w] = input

\* C2 (Per-receiver delivery order): what a receiver has obtained from recv()
\* is always a prefix of what the Reader has broadcast: nothing is delivered
\* twice, skipped or reordered, and two receivers agree up to the shorter one.
DeliveryOrder ==
    \A w \in Writers :
        /\ IsPrefix(got[w], sent)
        /\ \A v \in Writers : IsPrefix(got[w], got[v]) \/ IsPrefix(got[v], got[w])

\* two receivers at different points of a stream of at least three blocks,
\* the ring having wrapped
DeliveryOrderWitness ==
    /\ num_outputs = 2
    /\ Len(sent) > block_buffer + 1
    /\ Len(got[1]) >= 2
    /\ Len(got[2]) < Len(got[1])
    /\ Len(got[2]) >= 1

CountAccuracy ==
    result.tag = "ok" =>
        /\ result.val = pos
        /\ FullStream => result.val = Len(input)

\* a Status after a full-stream run in which a read came back short
CountAccuracyWitness ==
    /\ result.tag = "ok"
    /\ FullStream
    /\ short
    /\ Len(input) >= 2
    /\ result.val = Len(input)

\* C5 (Startup ordering): once the Reader exists, and so whenever a block has
\* been broadcast, every output's receiver has been registered, and each was
\* registered before any block was broadcast.
StartupOrdering ==
    /\ (rpc # "unspawned" \/ sent # <<>>) =>
          /\ writer_threads = num_outputs
          /\ \A w \in Outputs : wpc[w] # "unspawned"
    /\ \A w \in Outputs : (live[w] /\ wpc[w] = "create") =>
          Len(got[w]) = 0 /\ (head[w] = tail <=> sent = <<>>)

\* a block has been broadcast while the second Writer has not yet run
StartupOrderingWitness ==
    /\ num_outputs = 2
    /\ sent # <<>>
    /\ wpc[2] = "create"
    /\ live[2]

\* C6 (Scenario C): when a Writer failed to create its target and neither the
\* Reader nor another Writer failed, what run returns is that Writer's
\* UnableToCreateFile error, never Success.
ScenarioC ==
    \A w \in Outputs :
        ( /\ Returned
          /\ writer_result[w] = Err("UnableToCreateFile", w)
          /\ reader_result.tag # "err"
          /\ \A v \in Outputs \ {w} : writer_result[v].tag # "err" )
        => result = Err("UnableToCreateFile", w)

\* run returned the first Writer's create error; the Reader succeeded and the
\* second Writer wrote the whole stream and synced
ScenarioCWitness ==
    /\ num_outputs = 2
    /\ result = Err("UnableToCreateFile", 1)
    /\ reader_result.tag = "ok"
    /\ writer_result[2].tag = "ok"
    /\ synced[2]
    /\ Len(sent) >= 2
    /\ got[2] = sent

\* C7 (First-error aggregation): a returned error is the first in join order:
\* the Reader's if the Reader failed, else that of the failed Writer with the
\* lowest index, every Writer before it having succeeded; Success is returned
\* only if the Reader and every Writer succeeded.
FirstError ==
    /\ result.tag = "err" =>
          IF reader_result.tag = "err"
            THEN result = reader_result
            ELSE \E w \in Outputs :
                    /\ writer_result[w].tag = "err"
                    /\ result = writer_result[w]
                    /\ \A v \in 1..(w - 1) : writer_result[v].tag = "ok"
    /\ result.tag = "ok" =>
          /\ reader_result.tag = "ok"
          /\ \A w \in Outputs : writer_result[w].tag = "ok"

\* both Writers failed, with different errors, and run returned the first's
FirstErrorWitness ==
    /\ num_outputs = 2
    /\ reader_result.tag = "ok"
    /\ writer_result[1] = Err("UnableToWriteToBuffer", NoPath)
    /\ writer_result[2] = Err("UnableToCreateFile", 2)
    /\ result = writer_result[1]

StatusAfterJoins ==
    result.tag = "ok" =>
        /\ rpc = "done"
        /\ \A w \in Outputs : wpc[w] = "done"
        /\ join_idx = num_outputs + 1
        /\ result.files = num_outputs

\* a Status for a job with two outputs and a non-empty stream
StatusAfterJoinsWitness ==
    /\ result.tag = "ok"
    /\ num_outputs = 2
    /\ result.files = 2
    /\ Len(sent) >= 2

\* C10 (run waits on every task): whatever run returns, a Status or an Error,
\* the Reader and every spawned Writer have ended by then.
WaitsOnEveryTask ==
    Returned =>
        /\ rpc = "done"
        /\ \A w \in 1..writer_threads : wpc[w] = "done"

\* the Writer's recv() has returned Err: it has run sync_all, with either
\* outcome
WriterSawClosed(w) ==
    synced[w] \/ writer_result[w] = Err("UnableToSyncFiles", NoPath)

\* C11 (End-of-stream delivery): a Writer's recv() has returned Closed only if
\* the Bus has been dropped and that receiver has received every block
\* broadcast; so a Writer syncs only after writing every block the Reader
\* broadcast.
EndOfStreamDelivery ==
    \A w \in Writers :
        WriterSawClosed(w) =>
            /\ closed
            /\ got[w] = sent
            /\ file[w] = Concat(sent)

\* the first Writer has synced after a stream of two or more blocks while the
\* second, with the Bus already closed, still has blocks to receive
EndOfStreamWitness ==
    /\ num_outputs = 2
    /\ synced[1]
    /\ Len(sent) >= 2
    /\ wpc[2] = "recv"
    /\ Len(got[2]) < Len(sent)

\* what the statement of C12 says of the blocks broadcast so far
BlocksSizedFor(len) ==
    /\ \A i \in 1..(Len(sent) - 1) : Len(sent[i]) = block_size
    /\ Len(Concat(sent)) <= len
    /\ reader_result.tag = "ok" =>
          /\ Len(Concat(sent)) = len
          /\ \A i \in 1..Len(sent) :
                Len(sent[i]) # block_size =>
                    i = Len(sent) /\ Len(sent[i]) = len % block_size

\* C12 (Final block sizing): in full-stream mode every block broadcast has
\* length block_size except possibly the last, which has the input length's
\* remainder; no block extends past the end of the input.
FinalBlockSizing == FullStream => BlocksSizedFor(Len(input))

\* The sizing does hold of the runs in which every read filled its buffer.
FinalBlockSizingOfFullReads ==
    (FullStream /\ ~short) => BlocksSizedFor(Len(input))

\* the whole stream has been broadcast
StreamComplete ==
    IF FullStream THEN pos = Len(input) /\ Len(Concat(sent)) >= Len(input)
                  ELSE Len(sent) = block_count

AllEnded == rpc = "done" /\ \A v \in Outputs : wpc[v] = "done"

NoFailure ==
    /\ reader_result.tag # "err"
    /\ \A w \in Writers : writer_result[w].tag # "err"

Queued(w) ==
    [k \in 1..((tail - head[w] + RingLen) % RingLen) |->
        ring[(head[w] + k - 1) % RingLen]]

\* the error kinds the Reader's step at pc can end with
AbortKinds(pc) ==
    CASE pc = "open" -> {"UnableToOpenFile"}
      [] pc = "stream_len" -> {"UnableToGetByteLen"}
      [] pc = "loop" -> {"UnableToGetCurrPos", "UnableToReadBytesFrom"}
      [] pc = "for" -> {"UnableToReadBytesFrom"}
      [] OTHER -> {}

\* C16 (Reader abort): the step in which opening the input, a read or a
\* length or position query fails ends the Reader with that call's error kind
\* and broadcasts nothing; after it the Reader broadcasts nothing more; and
\* the blocks broadcast before stay in the ring for every receiver that has
\* yet to receive them.
ReaderAbort ==
    /\ [][ (reader_result.tag # "err" /\ reader_result'.tag = "err") =>
              /\ rpc' = "done"
              /\ reader_result'.kind \in AbortKinds(rpc)
              /\ reader_result'.path = InputPath
              /\ UNCHANGED <<sent, ring, tail>> ]_vars
    /\ [][ reader_result.tag = "err" =>
              UNCHANGED <<sent, ring, tail, reader_result, rpc>> ]_vars
    /\ [](\A w \in Outputs :
            wpc[w] \in {"create", "recv"} =>
                Queued(w) = SubSeq(sent, Len(got[w]) + 1, Len(sent)))

\* a position query failed after two blocks or more, and a Writer has yet to
\* receive some of them
ReaderAbortWitness ==
    /\ reader_result = Err("UnableToGetCurrPos", InputPath)
    /\ Len(sent) >= 2
    /\ \E w \in Outputs :
          /\ wpc[w] = "recv"
          /\ Len(got[w]) < Len(sent)
          /\ Queued(w) # <<>>

\* C17 (Writer fail-fast): a Writer whose File::create failed has ended with
\* UnableToCreateFile for its path without a recv(): it has received no
\* block, its cursor is where add_rx put it, and it has written and synced
\* nothing.
WriterFailFast ==
    \A w \in Writers :
        writer_result[w].kind = "UnableToCreateFile" =>
            /\ writer_result[w] = Err("UnableToCreateFile", w)
            /\ wpc[w] = "done"
            /\ got[w] = <<>>
            /\ head[w] = 0
            /\ file[w] = <<>>
            /\ ~synced[w]

\* the first Writer failed to create its file in a job whose other Writer
\* received a stream of two blocks or more
WriterFailFastWitness ==
    /\ num_outputs = 2
    /\ writer_result[1] = Err("UnableToCreateFile", 1)
    /\ Len(sent) >= 2
    /\ got[2] = sent
    /\ wpc[2] = "recv"

\* C18 (bounded mode): with a block count K the Reader reads into a buffer of
\* block_size bytes and broadcasts once per read, never more than K times; it
\* returns Ok only after exactly K reads and K broadcasts, whatever the
\* input's length and whatever the reads returned, it fails only by the open
\* or by a read, and it always ends.
BoundedReads ==
    /\ [](~FullStream =>
            /\ Len(sent) <= block_count
            /\ Len(reads) = Len(sent) + (IF rpc = "broadcast" THEN 1 ELSE 0)
            /\ \A i \in 1..Len(reads) : reads[i][1] = block_size
            /\ reader_result.tag = "ok" =>
                  /\ rpc = "done"
                  /\ Len(reads) = block_count
                  /\ Len(sent) = block_count
            /\ reader_result.tag = "err" =>
                  reader_result.kind \in
                      {"UnableToOpenFile", "UnableToReadBytesFrom"})
    /\ (~FullStream ~> rpc = "done")

\* the Reader returned Ok after two reads of an input shorter than two blocks,
\* one of which returned 0 bytes
BoundedReadsWitness ==
    /\ block_count = 2
    /\ Len(input) < 2 * block_size
    /\ reader_result.tag = "ok"
    /\ \E i \in 1..Len(reads) : reads[i][2] = 0
    /\ Len(sent) = 2

\* C19: the Bus is closed only by the step that ends the Reader thread, so
\* while the Reader is running no Writer has seen the Bus closed and no Writer
\* has synced its file: a synced Writer implies a Reader that has ended, with
\* Ok or with an error.
NoSyncWhileReading ==
    /\ [][closed' # closed => (closed' /\ rpc # "done" /\ rpc' = "done")]_vars
    /\ [](closed <=> rpc = "done")
    /\ [](\A w \in Writers :
            (synced[w] \/ WriterSawClosed(w)) =>
                /\ rpc = "done"
                /\ reader_result.tag \in {"ok", "err"})

\* a Writer synced the blocks it had written after the Reader ended with an
\* error
NoSyncWhileReadingWitness ==
    \E w \in Outputs :
        /\ synced[w]
        /\ file[w] # <<>>
        /\ reader_result.tag = "err"

\* the sum of the counts the reads returned
RECURSIVE BytesRead(_)
BytesRead(rs) ==
    IF rs = <<>> THEN 0 ELSE rs[1][2] + BytesRead(Tail(rs))

\* C20: in bounded mode every block broadcast has exactly block_size bytes,
\* whatever its read returned; after a run that returned Ok with block count K
\* every output file holds exactly K * block_size bytes, and bytes_copied is
\* the sum of the bytes the reads returned, which is at most K * block_size.
BoundedBlockLength ==
    ~FullStream =>
        /\ \A i \in 1..Len(sent) : Len(sent[i]) = block_size
        /\ rpc = "broadcast" => Len(tmp_buf) = block_size
        /\ result.tag = "ok" =>
              /\ \A w \in Outputs :
                    /\ file[w] = Concat(sent)
                    /\ Len(file[w]) = block_count * block_size
              /\ result.val = BytesRead(reads)
              /\ result.val <= block_count * block_size

\* a run with outputs returned Ok with bytes_copied smaller than the
\* block_count * block_size bytes each output file holds
BoundedBlockLengthWitness ==
    /\ ~FullStream
    /\ num_outputs >= 1
    /\ result.tag = "ok"
    /\ result.val < block_count * block_size
    /\ \A w \in Outputs : Len(file[w]) = block_count * block_size

====
